---- MODULE Spec2Model ----
(***************************************************************************)
(* Model of crates/core_arch/src/aarch64/tbi.rs: the TBIPointer trait      *)
(* (with_top_byte / top_byte) over raw pointers, together with the callers *)
(* of the module's tests (tag a pointer, read the tag, read and write the  *)
(* pointee through the tagged pointer).                                    *)
(*                                                                         *)
(* A usize is the vector of its bytes, a function 0..W/8-1 -> 0..255 with  *)
(* byte 0 the least significant one (its base-256 digits), so that no     *)
(* number in the model exceeds 2^31.  u8 values are the naturals 0..255.   *)
(***************************************************************************)
EXTENDS Integers, Sequences, FiniteSets, TLC

VARIABLES
  width,    \* the target's pointer width in bits (the width of usize)
  mem,      \* memory: translated address -> u32
  shape,    \* per caller: which of the four impls its pointer uses
  orig,     \* per caller: the pointer it started with (never changes)
  address,  \* per caller: its pointer variable (`address` in the tests)
  pc,       \* per caller: where it is inside with_top_byte
  tagArg,   \* per caller: the b of its latest with_top_byte call (-1: none)
  lastTag,  \* per caller: the b that produced `address` (-1: never tagged)
  prevTag,  \* per caller: the lastTag of the pointer `address` replaced
  frame,    \* the locals of with_top_byte, one frame per call
  rv,       \* per caller: the value its latest with_top_byte call returned
  obs,      \* what the step just taken returned, if a top_byte or a read
  wrote,    \* the latest write: who, index, value, and the writer's lastTag
  ncalls,   \* with_top_byte calls made so far
  nwrites   \* writes made so far

vars == <<width, mem, shape, orig, address, pc, tagArg, lastTag, prevTag,
          frame, rv, obs, wrote, ncalls, nwrites>>

(***************************************************************************)
(* Bounds of the model                                                     *)
(***************************************************************************)
NumCallers == 2     \* concurrent callers, each with its own pointer variable
MaxCalls == 2       \* with_top_byte calls in a run, over all callers
MaxWrites == 1      \* writes through a pointer in a run, over all callers

\* the callers of a concurrent run, and the single caller of a test
Callers == 1..NumCallers

Solo == {1}

(***************************************************************************)
(* usize arithmetic                                                        *)
(***************************************************************************)
\* bit i of a natural n < 2^16
Bit(n, i) == IF i < 16 THEN (n \div (2 ^ i)) % 2 ELSE 0

\* a & b and a | b on bytes, bit by bit
And8(a, b) ==
  Bit(a, 0) * Bit(b, 0) + 2 * Bit(a, 1) * Bit(b, 1)
    + 4 * Bit(a, 2) * Bit(b, 2) + 8 * Bit(a, 3) * Bit(b, 3)
    + 16 * Bit(a, 4) * Bit(b, 4) + 32 * Bit(a, 5) * Bit(b, 5)
    + 64 * Bit(a, 6) * Bit(b, 6) + 128 * Bit(a, 7) * Bit(b, 7)

Or8(a, b) == a + b - And8(a, b)

\* bytes and bits of a usize value
NBytes(x) == Cardinality(DOMAIN x)

Width(x) == 8 * NBytes(x)

\* byte j of a hexadecimal literal given by its digits, most significant first
LitByte(hex, j) ==
  LET lo == Len(hex) - 2 * j
  IN  (IF lo >= 1 THEN hex[lo] ELSE 0)
        + 16 * (IF lo >= 2 THEN hex[lo - 1] ELSE 0)

\* a hexadecimal literal of type usize on a target with W-bit pointers; on
\* a target narrower than the literal only its low W bits remain
UsizeLit(W, hex) == [j \in 0..((W \div 8) - 1) |-> LitByte(hex, j)]

\* x & y
BitAnd(x, y) == [j \in DOMAIN x |-> And8(x[j], y[j])]

\* x | y
BitOr(x, y) == [j \in DOMAIN x |-> Or8(x[j], y[j])]

\* byte j of x, 0 outside x
ByteAt(x, j) == IF j \in DOMAIN x THEN x[j] ELSE 0

\* x >> n on a usize (logical shift), the amount wraps as in <<
Shr(x, n) ==
  LET s == n % Width(x)
      q == s \div 8
      r == s % 8
  IN  [j \in DOMAIN x |->
         (ByteAt(x, j + q) \div (2 ^ r))
           + ((ByteAt(x, j + q + 1) * (2 ^ (8 - r))) % 256)]

\* a shift in the wrong direction
ShlWrongWay(x, n) == Shr(x, n)

\* x << n on a usize; a shift amount of the width or more wraps (n mod W)
\* when overflow checks are off
Shl(x, n) ==
  LET s == n % Width(x)
      q == s \div 8
      r == s % 8
  IN  [j \in DOMAIN x |->
         ((ByteAt(x, j - q) * (2 ^ r)) % 256)
           + (ByteAt(x, j - q - 1) \div (2 ^ (8 - r)))]

\* a conversion that loses the top bit of b
U8AsUsize7(W, b) ==
  [j \in 0..((W \div 8) - 1) |-> IF j = 0 THEN b % 128 ELSE 0]

\* b as usize (zero extension of a u8)
U8AsUsize(W, b) == [j \in 0..((W \div 8) - 1) |-> IF j = 0 THEN b ELSE 0]

\* x as u8 (truncation to the low 8 bits)
UsizeAsU8(x) == x[0]

(***************************************************************************)
(* tbi_ptr_impl                                                            *)
(***************************************************************************)
\* a mask that clears nothing, and one that also clears the low byte
MaskHexAllOnes ==
  <<15, 15, 15, 15, 15, 15, 15, 15, 15, 15, 15, 15, 15, 15, 15, 15>>

MaskHexLow == <<0, 0, 15, 15, 15, 15, 15, 15, 15, 15, 15, 15, 15, 15, 0, 0>>

\* the literal 0x00ffffffffffffff of line 20
MaskHex == <<0, 0, 15, 15, 15, 15, 15, 15, 15, 15, 15, 15, 15, 15, 15, 15>>

\* the shift amount of lines 21 and 26
TopShift == 56

\* A raw pointer: its address and what with_addr carries over unchanged
\* (the slice length of a *const [T] / *mut [T]; 0 for a thin pointer).
Ptr(a, m) == [addr |-> a, meta |-> m]

\* a pointer rebuilt from the address alone, without the slice length
with_addrThin(self, p) == Ptr(p, 0)

\* self.with_addr(p)
with_addr(self, p) == [self EXCEPT !.addr = p]

\* line 20 without the mask
MaskAddrNone(self) == self.addr

\* line 20: let addr = self.addr() & 0x00ffffffffffffff;
MaskAddr(self) == BitAnd(self.addr, UsizeLit(Width(self.addr), MaskHex))

\* line 21 without addr
OrTagOnly(addr, b) == Shl(U8AsUsize(Width(addr), b), TopShift)

\* line 21: let p = addr | ((b as usize) << 56);
OrTag(addr, b) == BitOr(addr, Shl(U8AsUsize(Width(addr), b), TopShift))

\* fn with_top_byte(self, b: u8) -> Self
with_top_byte(self, b) == with_addr(self, OrTag(MaskAddr(self), b))

\* top_byte with a shift one byte short
top_byteShort(self) == UsizeAsU8(Shr(self.addr, TopShift - 8))

\* fn top_byte(&self) -> u8
top_byte(self) == UsizeAsU8(Shr(self.addr, TopShift))

(***************************************************************************)
(* Memory under Top-Byte Ignore, and the pointees of the tests             *)
(***************************************************************************)
\* the address bits the hardware translates: bits 56..63 are ignored
PayloadBits == 56

\* the address a load or store through pointer address a goes to
Translate(a) == [j \in 0..((PayloadBits \div 8) - 1) |-> ByteAt(a, j)]

\* a + n for a small n (wrapping)
RECURSIVE AddFrom(_, _, _, _)
AddFrom(a, n, j, carry) ==
  IF j = NBytes(a) THEN <<>>
  ELSE LET d == a[j] + (IF j = 0 THEN n ELSE 0) + carry
       IN  <<d % 256>> \o AddFrom(a, n, j + 1, d \div 256)

AddOffset(a, n) ==
  LET sum == AddFrom(a, n, 0, 0)
  IN  [j \in DOMAIN a |-> sum[j + 1]]

\* size_of::<u32>()
ElemSize == 4

\* the address of (*address)[i]
ElemAddr(a, i) == AddOffset(a, ElemSize * i)

\* a u32, as its two 16-bit halves
U32(hi, lo) == <<hi, lo>>

\* what an access outside the pointees gives
Fault == <<-1, -1>>

Load(m, a) == IF Translate(a) \in DOMAIN m THEN m[Translate(a)] ELSE Fault

Store(m, a, v) ==
  IF Translate(a) \in DOMAIN m THEN [m EXCEPT ![Translate(a)] = v] ELSE m

Shapes == {"const_T", "mut_T", "const_slice", "mut_slice"}

IsMut(s) == s \in {"mut_T", "mut_slice"}

IsSlice(s) == s \in {"const_slice", "mut_slice"}

\* elements of the pointee: `value: u32` or `value: [u32; 4]`
NElems(s) == IF IsSlice(s) THEN 4 ELSE 1

\* elements reachable through a pointer: a slice pointer carries its length
PtrLen(ptr, s) == IF IsSlice(s) THEN ptr.meta ELSE 1

\* let value: u32 = 10;
ScalarInit == <<U32(0, 10)>>

\* let value: [u32; 4] = [10, 255, 65535, 0xffffffff];
ArrayInit == <<U32(0, 10), U32(0, 255), U32(0, 65535), U32(65535, 65535)>>

ValueInit(s) == IF IsSlice(s) THEN ArrayInit ELSE ScalarInit

\* where the two pointees live (the low 56 bits of their addresses)
ScalarHex == <<0, 0, 15, 15, 15, 15, 15, 15, 15, 15, 15, 15, 15, 0, 1, 0>>

ArrayHex == <<0, 0, 7, 15, 15, 14, 1, 2, 3, 4, 5, 6, 7, 8, 8, 0>>

BaseHex(s) == IF IsSlice(s) THEN ArrayHex ELSE ScalarHex

\* the top bytes a pointer may carry when a caller first gets it
InitTops == {0, 165}

\* the tag bytes callers pass: both boundary values and interior ones
TagBytes == {0, 128, 255}

\* the value a caller writes: `*address = 255`, `(*address)[0] = 25`
WriteVal(s) == IF IsSlice(s) THEN U32(0, 25) ELSE U32(0, 255)

\* `&value as *const u32` and friends, with top byte t on a 64-bit target
InitPtr(W, s, t) ==
  Ptr([j \in 0..((W \div 8) - 1) |->
         IF j = PayloadBits \div 8 THEN t ELSE LitByte(BaseHex(s), j)],
      IF IsSlice(s) THEN 4 ELSE 0)

InitMem(W) ==
  LET cells == {<<s, i>> : s \in {"mut_T", "mut_slice"}, i \in 0..3}
      live == {c \in cells : c[2] < NElems(c[1])}
      key(c) == Translate(ElemAddr(InitPtr(W, c[1], 0).addr, c[2]))
  IN  [k \in {key(c) : c \in live} |->
         LET c == CHOOSE d \in live : key(d) = k
         IN  ValueInit(c[1])[c[2] + 1]]

NullPtr(W) == Ptr(UsizeLit(W, <<0>>), 0)

NoFrame(W) ==
  [self |-> NullPtr(W), b |-> 0, addr |-> UsizeLit(W, <<0>>),
   p |-> UsizeLit(W, <<0>>)]

\* one frame shared by all calls (locals kept in a static)
FrameShared(c) == 1

\* the frame holding the locals of caller c's call
Frame(c) == c

\* a pointer type that is moved into the call
AfterPassMoved(ptr) == NullPtr(Width(ptr.addr))

\* what the caller's variable holds after it was passed as `self`:
\* raw pointers are Copy, so the variable keeps its value
AfterPass(ptr) == ptr

(***************************************************************************)
(* The state machine                                                       *)
(***************************************************************************)
NoObs == [who |-> 0, op |-> "none", tb |-> -1, got |-> <<>>]

NoWrite == [who |-> 0, i |-> 0, v |-> Fault, tag |-> -1]

\* callers are interchangeable: they are numbered in the order of their
\* shapes and initial top bytes
ShapeRank(s) ==
  IF s = "const_T" THEN 0 ELSE IF s = "mut_T" THEN 1
  ELSE IF s = "const_slice" THEN 2 ELSE 3

\* two callers may point at the same pointee only through const pointers
InitFor(W, CS) ==
  /\ width = W
  /\ mem = InitMem(W)
  /\ shape \in [CS -> Shapes]
  /\ \A c, d \in CS :
       (c # d /\ IsSlice(shape[c]) = IsSlice(shape[d]))
         => (~IsMut(shape[c]) /\ ~IsMut(shape[d]))
  /\ \E t \in [CS -> InitTops] :
       /\ \A c, d \in CS :
            c < d => (256 * ShapeRank(shape[c]) + t[c]
                        <= 256 * ShapeRank(shape[d]) + t[d])
       /\ orig = [c \in CS |-> InitPtr(W, shape[c], t[c])]
  /\ address = orig
  /\ pc = [c \in CS |-> "idle"]
  /\ tagArg = [c \in CS |-> -1]
  /\ lastTag = [c \in CS |-> -1]
  /\ prevTag = [c \in CS |-> -1]
  /\ frame = [c \in CS |-> NoFrame(W)]
  /\ rv = [c \in CS |-> NullPtr(W)]
  /\ obs = NoObs
  /\ wrote = NoWrite
  /\ ncalls = 0
  /\ nwrites = 0

\* the module is built for aarch64: 64-bit pointers; a test is one caller
Init == InitFor(64, Solo)

\* address.with_top_byte(b): the call
Call(c, b) ==
  /\ pc[c] = "idle"
  /\ ncalls < MaxCalls
  /\ frame' = [frame EXCEPT ![Frame(c)] =
                 [self |-> address[c], b |-> b,
                  addr |-> NoFrame(width).addr, p |-> NoFrame(width).p]]
  /\ address' = [address EXCEPT ![c] = AfterPass(address[c])]
  /\ tagArg' = [tagArg EXCEPT ![c] = b]
  /\ ncalls' = ncalls + 1
  /\ pc' = [pc EXCEPT ![c] = "l20"]
  /\ obs' = NoObs
  /\ UNCHANGED <<width, mem, shape, orig, lastTag, prevTag, rv, wrote,
                 nwrites>>

\* line 20
L20(c) ==
  /\ pc[c] = "l20"
  /\ frame' = [frame EXCEPT ![Frame(c)].addr = MaskAddr(frame[Frame(c)].self)]
  /\ pc' = [pc EXCEPT ![c] = "l21"]
  /\ obs' = NoObs
  /\ UNCHANGED <<width, mem, shape, orig, address, tagArg, lastTag, prevTag,
                 rv, wrote, ncalls, nwrites>>

\* line 21
L21(c) ==
  /\ pc[c] = "l21"
  /\ frame' = [frame EXCEPT ![Frame(c)].p =
                 OrTag(frame[Frame(c)].addr, frame[Frame(c)].b)]
  /\ pc' = [pc EXCEPT ![c] = "l22"]
  /\ obs' = NoObs
  /\ UNCHANGED <<width, mem, shape, orig, address, tagArg, lastTag, prevTag,
                 rv, wrote, ncalls, nwrites>>

\* line 22: the call returns and its frame is gone
L22(c) ==
  /\ pc[c] = "l22"
  /\ rv' = [rv EXCEPT ![c] =
              with_addr(frame[Frame(c)].self, frame[Frame(c)].p)]
  /\ frame' = [frame EXCEPT ![Frame(c)] = NoFrame(width)]
  /\ pc' = [pc EXCEPT ![c] = "ret"]
  /\ obs' = NoObs
  /\ UNCHANGED <<width, mem, shape, orig, address, tagArg, lastTag, prevTag,
                 wrote, ncalls, nwrites>>

\* address = address.with_top_byte(b);
Assign(c) ==
  /\ pc[c] = "ret"
  /\ address' = [address EXCEPT ![c] = rv[c]]
  /\ lastTag' = [lastTag EXCEPT ![c] = tagArg[c]]
  /\ prevTag' = [prevTag EXCEPT ![c] = lastTag[c]]
  /\ pc' = [pc EXCEPT ![c] = "idle"]
  /\ obs' = NoObs
  /\ UNCHANGED <<width, mem, shape, orig, tagArg, frame, rv, wrote, ncalls,
                 nwrites>>

\* let _ = address.with_top_byte(b); the caller goes on with `address`
Discard(c) ==
  /\ pc[c] = "ret"
  /\ pc' = [pc EXCEPT ![c] = "idle"]
  /\ obs' = NoObs
  /\ UNCHANGED <<width, mem, shape, orig, address, tagArg, lastTag, prevTag,
                 frame, rv, wrote, ncalls, nwrites>>

\* address.top_byte()
TopByte(c) ==
  /\ pc[c] = "idle"
  /\ obs' = [who |-> c, op |-> "top_byte", tb |-> top_byte(address[c]),
             got |-> <<>>]
  /\ UNCHANGED <<width, mem, shape, orig, address, pc, tagArg, lastTag,
                 prevTag, frame, rv, wrote, ncalls, nwrites>>

\* unsafe { *address }
Read(c) ==
  /\ pc[c] = "idle"
  /\ obs' = [who |-> c, op |-> "read", tb |-> -1,
             got |-> [i \in 1..PtrLen(address[c], shape[c]) |->
                        Load(mem, ElemAddr(address[c].addr, i - 1))]]
  /\ UNCHANGED <<width, mem, shape, orig, address, pc, tagArg, lastTag,
                 prevTag, frame, rv, wrote, ncalls, nwrites>>

\* unsafe { (*address)[i] = v }   (unsafe { *address = v } for a scalar)
Write(c, i) ==
  /\ pc[c] = "idle"
  /\ IsMut(shape[c])
  /\ i < PtrLen(address[c], shape[c])
  /\ nwrites < MaxWrites
  /\ mem' = Store(mem, ElemAddr(address[c].addr, i), WriteVal(shape[c]))
  /\ wrote' = [who |-> c, i |-> i, v |-> WriteVal(shape[c]),
               tag |-> lastTag[c]]
  /\ nwrites' = nwrites + 1
  /\ obs' = NoObs
  /\ UNCHANGED <<width, shape, orig, address, pc, tagArg, lastTag, prevTag,
                 frame, rv, ncalls>>

Next ==
  \/ \E c \in DOMAIN pc, b \in TagBytes : Call(c, b)
  \/ \E c \in DOMAIN pc : L20(c)
  \/ \E c \in DOMAIN pc : L21(c)
  \/ \E c \in DOMAIN pc : L22(c)
  \/ \E c \in DOMAIN pc : Assign(c)
  \/ \E c \in DOMAIN pc : Discard(c)
  \/ \E c \in DOMAIN pc : TopByte(c)
  \/ \E c \in DOMAIN pc : Read(c)
  \/ \E c \in DOMAIN pc, i \in 0..3 : Write(c, i)

Spec == Init /\ [][Next]_vars

(***************************************************************************)
(* Concurrent callers of with_top_byte and top_byte, each doing            *)
(* `address = address.with_top_byte(b)` and `address.top_byte()`           *)
(***************************************************************************)
InitConc == InitFor(64, Callers)

NextConc ==
  \/ \E c \in DOMAIN pc, b \in TagBytes : Call(c, b)
  \/ \E c \in DOMAIN pc : L20(c)
  \/ \E c \in DOMAIN pc : L21(c)
  \/ \E c \in DOMAIN pc : L22(c)
  \/ \E c \in DOMAIN pc : Assign(c)
  \/ \E c \in DOMAIN pc : TopByte(c)

SpecConc == InitConc /\ [][NextConc]_vars

(***************************************************************************)
(* The same code on targets of other pointer widths                        *)
(***************************************************************************)
\* target_pointer_width: 64, and 32 for an ILP32 target
TargetWidths == {32, 64}

InitW == \E W \in TargetWidths : InitFor(W, Solo)

\* line 21 with overflow checks on: a shift by the width or more panics
ShiftPanic(c) ==
  /\ pc[c] = "l21"
  /\ TopShift >= width
  /\ pc' = [pc EXCEPT ![c] = "panic"]
  /\ obs' = NoObs
  /\ UNCHANGED <<width, mem, shape, orig, address, tagArg, lastTag, prevTag,
                 frame, rv, wrote, ncalls, nwrites>>

NextW ==
  \/ Next
  \/ \E c \in DOMAIN pc : ShiftPanic(c)

SpecWidth == InitW /\ [][NextW]_vars

(***************************************************************************)
(* Properties                                                              *)
(***************************************************************************)
\* bits 0..55 and bits 56..63 of a 64-bit address, read off its bytes
Low56(a) == [j \in 0..6 |-> a[j]]

Top8(a) == a[7]

\* C1: top_byte of a pointer produced by with_top_byte(p, b) returns b, for
\* every p and every tag byte b, 0x00 and 0xFF included.
C1_TopByteReturnsTag ==
  (obs.op = "top_byte" /\ lastTag[obs.who] # -1) => obs.tb = lastTag[obs.who]

\* C1 witness: top_byte returned 0x00 for a pointer tagged 0x00 that had
\* carried 0xFF before.
C1_Witness ==
  /\ obs.op = "top_byte"
  /\ obs.tb = 0
  /\ lastTag[obs.who] = 0
  /\ prevTag[obs.who] = 255

\* C2: when with_top_byte(p, b) returns, the low 56 bits of the result are
\* the low 56 bits of p.
C2_PayloadKept ==
  \A c \in DOMAIN pc :
    pc[c] = "ret" => Low56(rv[c].addr) = Low56(address[c].addr)

\* C2 witness: a call returned a pointer whose top byte differs from the
\* non-zero top byte of its argument.
C2_Witness ==
  \E c \in DOMAIN pc :
    /\ pc[c] = "ret"
    /\ Top8(address[c].addr) # 0
    /\ Top8(rv[c].addr) # Top8(address[c].addr)

\* C3: after any sequence of with_top_byte calls whose results replaced the
\* pointer, the pointer has the payload of the original p and the top byte
\* b2 of the last call: it is with_top_byte(p, b2).
C3_Retag ==
  \A c \in DOMAIN pc :
    lastTag[c] # -1 =>
      /\ Low56(address[c].addr) = Low56(orig[c].addr)
      /\ Top8(address[c].addr) = lastTag[c]
      /\ address[c] = with_top_byte(orig[c], lastTag[c])

\* C3 witness: a pointer tagged 0xFF and then re-tagged 0x80.
C3_Witness ==
  \E c \in DOMAIN pc : prevTag[c] = 255 /\ lastTag[c] = 128 /\ pc[c] = "idle"

\* C4 as stated: once with_top_byte has returned, the only pointer the
\* caller holds is the returned one.
C4_OnlyReturnedIsLive ==
  \A c \in DOMAIN pc :
    (pc[c] = "idle" /\ tagArg[c] # -1) => address[c] = rv[c]

\* C4 amended: a call leaves the caller's own copy of the pointer as it
\* was; the copy changes only when the caller stores the returned pointer.
C4_OldValueKept ==
  [][\A c \in DOMAIN pc :
       address'[c] # address[c] => (pc[c] = "ret" /\ address'[c] = rv[c])]_vars

\* C4 witness: a caller went on to use (top_byte) the pointer it had passed
\* to a with_top_byte call that returned a different pointer.
C4_Witness ==
  \E c \in DOMAIN pc :
    /\ pc[c] = "idle"
    /\ tagArg[c] # -1
    /\ rv[c] # address[c]
    /\ obs.op = "top_byte"
    /\ obs.who = c

\* the pointee of caller c as read through its original pointer
Contents(c) ==
  [i \in 1..NElems(shape[c]) |->
     mem[Translate(ElemAddr(orig[c].addr, i - 1))]]

\* C5: a read through the pointer, whatever tags it was given, yields what a
\* read through the original p yields: the initial data before any write,
\* and at the written element the value written through an earlier tag.
C5_WriteVisible ==
  obs.op = "read" =>
    /\ obs.got = Contents(obs.who)
    /\ wrote.who = 0 => obs.got = ValueInit(shape[obs.who])
    /\ wrote.who = obs.who => obs.got[wrote.i + 1] = wrote.v

\* C5 witness: a value written through tag 0x80 was read through tag 0xFF.
C5_Witness ==
  /\ obs.op = "read"
  /\ wrote.who = obs.who
  /\ wrote.tag = 128
  /\ lastTag[obs.who] = 255

\* C6: a write of element i through the pointer sets exactly element i of
\* the underlying array, keeps every other element, and leaves the pointer
\* (top byte and payload) as it was.
C6_WriteFrame ==
  [][\A c \in DOMAIN pc, i \in 0..3 :
       Write(c, i) =>
         /\ DOMAIN mem' = DOMAIN mem
         /\ \A k \in DOMAIN mem :
              mem'[k] = IF k = Translate(ElemAddr(orig[c].addr, i))
                        THEN WriteVal(shape[c]) ELSE mem[k]
         /\ address' = address]_vars

\* C6 witness: element 2 of the array was written through a pointer tagged
\* 0x80.
C6_Witness ==
  /\ wrote.who # 0
  /\ IsSlice(shape[wrote.who])
  /\ wrote.i = 2
  /\ wrote.tag = 128
  /\ Contents(wrote.who)[3] = U32(0, 25)
  /\ Contents(wrote.who)[1] = U32(0, 10)

\* C7: with_top_byte(p, top_byte(p)) = p, and two calls return the same
\* address exactly when their pointers agree on the low 56 bits and their
\* tag bytes are equal.
C7_Bijection ==
  /\ \A c \in DOMAIN pc :
       (pc[c] = "ret" /\ top_byte(address[c]) = tagArg[c])
         => rv[c] = address[c]
  /\ \A c, d \in DOMAIN pc :
       (pc[c] = "ret" /\ pc[d] = "ret") =>
         ((rv[c].addr = rv[d].addr)
            <=> (/\ Low56(address[c].addr) = Low56(address[d].addr)
                 /\ tagArg[c] = tagArg[d]))

\* C7 witness: two calls on pointers with the same payload and different
\* top bytes returned the same address, which is one of the two arguments.
C7_Witness ==
  \E c, d \in DOMAIN pc :
    /\ pc[c] = "ret"
    /\ pc[d] = "ret"
    /\ address[c].addr # address[d].addr
    /\ rv[c].addr = rv[d].addr
    /\ rv[c] = address[c]

\* C8: under every interleaving of the callers' steps, a with_top_byte call
\* returns what the call returns when run alone on its arguments, and so
\* does top_byte.
C8_NoInterference ==
  /\ \A c \in DOMAIN pc :
       pc[c] = "ret" => rv[c] = with_top_byte(address[c], tagArg[c])
  /\ obs.op = "top_byte" => obs.tb = top_byte(address[obs.who])

\* C8 witness: a call returned while another caller's call, with another
\* pointer and another tag, was between its lines.
C8_Witness ==
  \E c, d \in DOMAIN pc :
    /\ pc[c] = "ret"
    /\ pc[d] \in {"l21", "l22"}
    /\ tagArg[c] # tagArg[d]
    /\ address[c] # address[d]

\* the top byte (bits W-8..W-1) of an address of any width
TopIndex(a) == NBytes(a) - 1

\* C9 as stated: for each address width W, with_top_byte replaces bits
\* W-8..W-1 by b and keeps the others, and top_byte returns bits W-8..W-1.
C9_WidthParameterized ==
  /\ \A c \in DOMAIN pc :
       pc[c] = "ret" =>
         rv[c].addr = [j \in DOMAIN address[c].addr |->
                         IF j = TopIndex(address[c].addr) THEN tagArg[c]
                         ELSE address[c].addr[j]]
  /\ obs.op = "top_byte" =>
       obs.tb = address[obs.who].addr[TopIndex(address[obs.who].addr)]

\* C9 amended: the same holds for W = 64, the width the constants
\* 0x00ffffffffffffff and 56 are written for.
C9_FixedFor64 ==
  width = 64 =>
    /\ \A c \in DOMAIN pc :
         pc[c] = "ret" =>
           rv[c].addr = [j \in 0..7 |->
                           IF j = 7 THEN tagArg[c] ELSE address[c].addr[j]]
    /\ obs.op = "top_byte" => obs.tb = address[obs.who].addr[7]

\* C9 witness: on the 64-bit target top_byte returned the 0xFF a call had
\* put in place of a non-zero top byte.
C9_Witness ==
  /\ width = 64
  /\ obs.op = "top_byte"
  /\ obs.tb = 255
  /\ lastTag[obs.who] = 255
  /\ Top8(orig[obs.who].addr) = 165

\* Natural numbers below 2^72 as nine base-256 digits, digit 0 the least
\* significant; 2^56 = 256^7.
NumOf(x) == [j \in 0..8 |-> ByteAt(x, j)]

\* n mod 2^56
NumMod56(n) == [j \in 0..8 |-> IF j < 7 THEN n[j] ELSE 0]

\* b * 2^56 for a natural b < 2^16
NumTimes56(b) ==
  [j \in 0..8 |-> IF j = 7 THEN b % 256 ELSE IF j = 8 THEN b \div 256 ELSE 0]

\* n div 2^56
NumDiv56(n) == n[7] + 256 * n[8]

RECURSIVE NumCarry(_, _, _)
NumCarry(m, n, j) ==
  IF j = 0 THEN 0 ELSE (m[j - 1] + n[j - 1] + NumCarry(m, n, j - 1)) \div 256

\* m + n
NumAdd(m, n) == [j \in 0..8 |-> (m[j] + n[j] + NumCarry(m, n, j)) % 256]

\* n < 2^64
NumIsU64(n) == n[8] = 0 /\ \A j \in 0..7 : n[j] \in 0..255

\* C10: with_top_byte(p, b) = (p mod 2^56) + b * 2^56, which is below 2^64;
\* top_byte(p) = p div 2^56, which is in 0..255; top_byte leaves p unchanged.
C10_Arithmetic ==
  /\ [](\A c \in DOMAIN pc :
          pc[c] = "ret" =>
            /\ NumOf(rv[c].addr) =
                 NumAdd(NumMod56(NumOf(address[c].addr)), NumTimes56(tagArg[c]))
            /\ NumIsU64(NumAdd(NumMod56(NumOf(address[c].addr)),
                               NumTimes56(tagArg[c]))))
  /\ [](obs.op = "top_byte" =>
          /\ obs.tb = NumDiv56(NumOf(address[obs.who].addr))
          /\ obs.tb \in 0..255)
  /\ [][\A c \in DOMAIN pc : TopByte(c) => address' = address]_vars

\* C10 witness: a call with b = 0xFF on a pointer with a non-zero top byte
\* returned, and the result is not its argument.
C10_Witness ==
  \E c \in DOMAIN pc :
    /\ pc[c] = "ret"
    /\ tagArg[c] = 255
    /\ Top8(address[c].addr) = 165
    /\ rv[c] # address[c]

====
